---- MODULE Spec2Model ----
(***************************************************************************)
(* Fluspirilenic: an IMAP toolbox (src/fluspirilenic.py).                  *)
(*                                                                         *)
(* The model covers the mailbox-pair resolver (_get_mailboxes), the header *)
(* parser (_get_header), the message-ID index builder (_get_message_ids),  *)
(* the flag engine (sync_read) and the placement engine (move_msgs),       *)
(* running against two IMAP sessions whose behaviour is that of            *)
(* imaplib.IMAP4 talking to an RFC 3501 server.                            *)
(*                                                                         *)
(* Python strings are sequences of characters.  A "character" is a TLA+    *)
(* string; the header name is kept as one atom ("Message-ID"), mailbox     *)
(* names are spelled out character by character because the code iterates  *)
(* over one of them.                                                       *)
(***************************************************************************)
EXTENDS Integers, Sequences, FiniteSets, TLC

VARIABLES
    args,            \* the parsed command line (argparse namespace)
    srcBoxes,        \* source account: mailbox name -> sequence of messages
    dstBoxes,        \* destination account: mailbox name -> sequence of messages
    src,             \* the source IMAP4 session: [state, sel]
    dst,             \* the destination IMAP4 session: [state, sel]
    pc,              \* position in the running function
    mboxes,          \* sync_read: the resolved list of mailbox pairs
    pairIdx,         \* sync_read: index (1-based) of the pair being processed
    dst_msgids_all,  \* sync_read: dict mailbox -> message-ID index
    msgnums,         \* sync_read: the search result, a list of number strings
    i,               \* the loop counter of the running engine
    ref_msgids,      \* move_msgs: the reference index
    from_msgids_all, \* move_msgs: dict candidate mailbox -> index
    refLeft,         \* move_msgs: keys of ref_msgids not yet iterated
    log,             \* what the logger received, in order
    cmds,            \* every IMAP command issued, in order
    dictOrder,       \* iteration order of a Python 2 dict keyed by mailbox name
    faults,          \* how many protocol calls may still raise out of the blue
    runs             \* modes of the runs still to come after this one

vars == <<args, srcBoxes, dstBoxes, src, dst, pc, mboxes, pairIdx,
          dst_msgids_all, msgnums, i, ref_msgids, from_msgids_all, refLeft,
          log, cmds, dictOrder, faults, runs>>

----------------------------------------------------------------------------
(* Bounds of the model.                                                    *)

MaxSrc == 2        \* messages in the source mailbox
MaxDst == 1        \* messages in each destination mailbox
MaxLimit == 1      \* largest --limit tried
MaxLines == 2      \* lines of a mapping file
MaxFields == 2     \* comma-separated fields of a mapping line

----------------------------------------------------------------------------
(* Python string and list operations used by the code.                     *)

WS == {" ", "\n"}

RECURSIVE lstrip(_)
lstrip(s) == IF s # <<>> /\ Head(s) \in WS THEN lstrip(Tail(s)) ELSE s

RECURSIVE rstrip(_)
rstrip(s) ==
    IF s # <<>> /\ s[Len(s)] \in WS THEN rstrip(SubSeq(s, 1, Len(s) - 1)) ELSE s

\* str.strip()
strip(s) == rstrip(lstrip(s))

\* str.find(c) + 1: position of the first c in s, 0 when there is none
find(s, c) ==
    IF \E p \in 1..Len(s) : s[p] = c
    THEN CHOOSE p \in 1..Len(s) : s[p] = c /\ \A q \in 1..(p - 1) : s[q] # c
    ELSE 0

\* str.split(sep, maxsplit): at most maxsplit cuts, maxsplit < 0 for no limit
RECURSIVE split(_, _, _)
split(s, sep, maxsplit) ==
    LET p == find(s, sep) IN
    IF maxsplit = 0 \/ p = 0 THEN <<s>>
    ELSE <<SubSeq(s, 1, p - 1)>> \o split(SubSeq(s, p + 1, Len(s)), sep, maxsplit - 1)

\* str.split(): cut at runs of whitespace, no empty strings
RECURSIVE splitws(_)
splitws(s) ==
    LET t == lstrip(s) IN
    IF t = <<>> THEN <<>>
    ELSE LET e == IF \E p \in 1..Len(t) : t[p] \in WS
                  THEN (CHOOSE p \in 1..Len(t) :
                            t[p] \in WS /\ \A q \in 1..(p - 1) : t[q] \notin WS) - 1
                  ELSE Len(t)
         IN <<SubSeq(t, 1, e)>> \o splitws(SubSeq(t, e + 1, Len(t)))

\* str.lower(): only the header name has upper-case letters in this model
lower(s) ==
    [p \in DOMAIN s |->
        IF s[p] \in {"Message-ID", "Message-Id", "MESSAGE-ID"} THEN "message-id"
        ELSE s[p]]

\* decimal strings of the message sequence numbers
Digits == <<"1", "2", "3", "4", "5", "6", "7", "8", "9">>
str(n) == <<Digits[n]>>
int(s) == CHOOSE n \in 1..Len(Digits) : Digits[n] = s[1]

\* a raised exception, as the value of an operation
Raise(e) == [exc |-> e]
Raised(r) == r.exc # ""

----------------------------------------------------------------------------
(* _get_header (lines 322-324)                                             *)

_get_header(header) ==
    LET values == split(header, ":", 2) IN
    IF Len(values) < 2 THEN Raise("IndexError")
    ELSE [exc |-> "", hd |-> strip(values[1]), val |-> strip(values[2])]

----------------------------------------------------------------------------
(* _get_mailboxes (lines 271-287)                                          *)

INBOX == <<"I", "N", "B", "O", "X">>

\* A Python value that the code iterates over is either a str or a list.
PyStr(s) == [t |-> "str", v |-> s]
PyList(l) == [t |-> "list", v |-> l]

\* "for m in x": a list yields its items, a str its characters
iter(x) == IF x.t = "str" THEN [p \in 1..Len(x.v) |-> <<x.v[p]>>] ELSE x.v

\* map(lambda s: s.strip(), l)
map_strip(l) == [p \in DOMAIN l |-> strip(l[p])]

\* a variant without the single-field case of lines 284-285; C9 tells it
\* from mapping_pair
mapping_pair_no_self(line) ==
    LET mapping == map_strip(split(line, ",", -1)) IN
    <<mapping[1], PyList(Tail(mapping))>>

\* the value appended for one non-blank line (lines 281-285)
mapping_pair(line) ==
    LET mapping == map_strip(split(line, ",", -1)) IN
    IF Len(mapping) > 1 THEN <<mapping[1], PyList(Tail(mapping))>>
    ELSE <<mapping[1], PyList(<<mapping[1]>>)>>

\* the loop over the lines of the file (lines 278-286)
RECURSIVE _get_mailboxes_lines(_)
_get_mailboxes_lines(lines) ==
    IF lines = <<>> THEN <<>>
    ELSE IF strip(Head(lines)) = <<>> THEN _get_mailboxes_lines(Tail(lines))
    ELSE <<mapping_pair(Head(lines))>> \o _get_mailboxes_lines(Tail(lines))

\* args.map is None ("given" is FALSE) or names a file with these lines
_get_mailboxes(a) ==
    IF ~a.map.given THEN << <<INBOX, PyStr(INBOX)>> >>
    ELSE _get_mailboxes_lines(a.map.lines)

----------------------------------------------------------------------------
(* The IMAP4 session (imaplib) against an RFC 3501 store.  A session is    *)
(* [state, sel]; a command is legal only in some states and raises         *)
(* otherwise; a NO answer is returned, not raised.  Message numbers are    *)
(* sequence numbers of the selected mailbox.                               *)

NoSel == <<>>

Select(sess, boxes, name) ==
    IF sess.state \notin {"AUTH", "SELECTED"} THEN Raise("error")
    ELSE IF name \in DOMAIN boxes
         THEN [exc |-> "", typ |-> "OK", sess |-> [state |-> "SELECTED", sel |-> name]]
         ELSE [exc |-> "", typ |-> "NO", sess |-> [state |-> "AUTH", sel |-> NoSel]]

Envelope(n) == str(n) \o <<" ", "(BODY[HEADER.FIELDS (Message-Id)]", " ", "{n}">>

\* fetch("1:*", "(BODY.PEEK[HEADER.FIELDS (Message-Id)])"): per message a
\* tuple (envelope, literal) and the string ")"; [None] when nothing comes back
FetchAll(sess, boxes) ==
    IF sess.state # "SELECTED" THEN Raise("error")
    ELSE LET box == boxes[sess.sel] IN
         [exc |-> "",
          data |-> IF box = <<>> THEN << [k |-> "None"] >>
                   ELSE [j \in 1..(2 * Len(box)) |->
                            IF j % 2 = 1
                            THEN [k |-> "tuple",
                                  v |-> <<Envelope((j + 1) \div 2), box[(j + 1) \div 2].hdr>>]
                            ELSE [k |-> "str", v |-> <<")">>]]]

RECURSIVE JoinNums(_, _, _)
JoinNums(box, flagSeen, n) ==
    IF n > Len(box) THEN <<>>
    ELSE LET rest == JoinNums(box, flagSeen, n + 1) IN
         IF box[n].seen # flagSeen THEN rest
         ELSE IF rest = <<>> THEN str(n) ELSE str(n) \o <<" ">> \o rest

\* search(None, 'SEEN' | 'UNSEEN'): data[0] is the numbers, space-separated
Search(sess, boxes, flag) ==
    IF sess.state # "SELECTED" THEN Raise("error")
    ELSE [exc |-> "", data0 |-> JoinNums(boxes[sess.sel], flag = "SEEN", 1)]

\* fetch(num, '(... BODY.PEEK[...])'): data[0][1] is the header block
Fetch(sess, boxes, num) ==
    IF sess.state # "SELECTED" THEN Raise("error")
    ELSE IF int(num) \notin 1..Len(boxes[sess.sel]) THEN Raise("TypeError")
    ELSE [exc |-> "", hdr |-> boxes[sess.sel][int(num)].hdr]

SetFlag(m, action, flag) ==
    IF flag = "\\Seen"
    THEN [m EXCEPT !.seen = (action = "+FLAGS.SILENT"), !.touched = TRUE]
    ELSE [m EXCEPT !.deleted = (action = "+FLAGS.SILENT"), !.touched = TRUE]

\* store(num, '+FLAGS.SILENT' | '-FLAGS.SILENT', flag)
Store(sess, boxes, num, action, flag) ==
    IF sess.state # "SELECTED" THEN Raise("error")
    ELSE [exc |-> "",
          boxes |-> IF int(num) \in 1..Len(boxes[sess.sel])
                    THEN [boxes EXCEPT ![sess.sel][int(num)] = SetFlag(@, action, flag)]
                    ELSE boxes]

\* copy(num, mailbox): NO (returned) when the target does not exist
Copy(sess, boxes, num, target) ==
    IF sess.state # "SELECTED" THEN Raise("error")
    ELSE IF target \in DOMAIN boxes /\ int(num) \in 1..Len(boxes[sess.sel])
         THEN [exc |-> "", typ |-> "OK",
               boxes |-> [boxes EXCEPT ![target] =
                            Append(@, [boxes[sess.sel][int(num)] EXCEPT !.id.gen = @ + 1])]]
         ELSE [exc |-> "", typ |-> "NO", boxes |-> boxes]

RECURSIVE Undeleted(_)
Undeleted(box) ==
    IF box = <<>> THEN <<>>
    ELSE IF Head(box).deleted THEN Undeleted(Tail(box))
    ELSE <<Head(box)>> \o Undeleted(Tail(box))

\* expunge(): removes the messages flagged \Deleted from the selected mailbox
Expunge(sess, boxes) ==
    IF sess.state # "SELECTED" THEN Raise("error")
    ELSE [exc |-> "", boxes |-> [boxes EXCEPT ![sess.sel] = Undeleted(@)]]

\* close(): expunges the selected mailbox and deselects it
Close(sess, boxes) ==
    IF sess.state # "SELECTED" THEN Raise("error")
    ELSE [exc |-> "", sess |-> [state |-> "AUTH", sel |-> NoSel],
          boxes |-> [boxes EXCEPT ![sess.sel] = Undeleted(@)]]

\* logout(): legal in every state
Logout(sess) == [state |-> "LOGOUT", sel |-> NoSel]

\* one issued command, as recorded in cmds; "on" is the source/reference
\* message the engine was working on ("" outside the message loop)
Cmd(s, c, a, on) == [s |-> s, c |-> c, a |-> a, on |-> on]

\* kept after a close or a logout that raised: the exception it raised
Raising(s, c, on) == Cmd(s, "raised", << <<c>> >>, on)

----------------------------------------------------------------------------
(* _get_message_ids (lines 290-300)                                        *)

DictSet(d, k, v) == [x \in DOMAIN d \cup {k} |-> IF x = k THEN v ELSE d[x]]

RECURSIVE _get_message_ids_loop(_, _)
_get_message_ids_loop(data, msgids) ==
    IF data = <<>> THEN [exc |-> "", msgids |-> msgids]
    ELSE LET d == Head(data) IN
         IF d.k = "None" THEN Raise("TypeError")
         ELSE IF Len(d.v) = 1 THEN _get_message_ids_loop(Tail(data), msgids)
         ELSE LET parts == split(d.v[1], " ", 2)
                  uid == parts[1]
                  h == _get_header(d.v[2])
              IN IF Raised(h) THEN h
                 ELSE _get_message_ids_loop(Tail(data), DictSet(msgids, h.val, uid))

_get_message_ids(sess, boxes) ==
    LET r == FetchAll(sess, boxes) IN
    IF Raised(r) THEN r ELSE _get_message_ids_loop(r.data, <<>>)

----------------------------------------------------------------------------
(* Values shared by the engines.                                           *)

NoMsg == [pair |-> 0, num |-> <<>>]
OnMsg(p, num) == [pair |-> p, num |-> num]

Warning(text, on) == [lvl |-> "warning", msg |-> text, on |-> on]
Error(e, on) == [lvl |-> "error", msg |-> <<e>>, on |-> on]
Info(text, on) == [lvl |-> "info", msg |-> text, on |-> on]

TxtNoMsgId == <<"Ignoring message because it doesn't have a Message-ID:">>
TxtNotFound == <<"Ignoring message because we can't find it on the destination:">>
TxtDashes == <<"-----------">>
TxtLimit == <<"Reached limit">>
TxtSynced == <<"Synced so far">>

\* dict.iteritems() of a dict keyed by mailbox name: Python 2 walks the hash
\* table, an order that depends on the keys and not on the insertion order
iteritems(d) == SelectSeq(dictOrder, LAMBDA n : n \in DOMAIN d)

\* "for m, msgids in all.iteritems(): if msgids.get(val) is not None: break"
\* (lines 125-129, 177-181): the mailboxes holding val, first one is taken
lookup(all, val) == SelectSeq(iteritems(all), LAMBDA n : val \in DOMAIN all[n])

\* a protocol call raises when the fault chosen for this step names it
Inject(f, point, r) == IF f = point THEN Raise("abort") ELSE r

FaultChoices(points) == IF faults > 0 THEN {"none"} \cup points ELSE {"none"}

----------------------------------------------------------------------------
(* sync_read (lines 78-154)                                                *)

\* line 79
GetMailboxes ==
    /\ pc = "start"
    /\ args.func = "sync_read"
    /\ mboxes' = _get_mailboxes(args)
    /\ pc' = "connect"
    /\ UNCHANGED <<args, srcBoxes, dstBoxes, src, dst, pairIdx, dst_msgids_all,
                   msgnums, i, ref_msgids, from_msgids_all, refLeft, log, cmds,
                   dictOrder, faults, runs>>

\* a variant that searches seen messages in both modes; C7 tells it from
\* search_flag
search_flag_same == "SEEN"

\* lines 82-89: what the mode searches for on the source ...
search_flag == IF args.mode = "read" THEN "SEEN" ELSE "UNSEEN"

\* a variant with the two store actions exchanged; C1 tells it from
\* store_action
store_action_swapped == IF args.mode = "read" THEN "-FLAGS.SILENT" ELSE "+FLAGS.SILENT"

\* ... and what it stores on the destination
store_action == IF args.mode = "read" THEN "+FLAGS.SILENT" ELSE "-FLAGS.SILENT"

\* lines 97-103: select and index every destination of the pair
RECURSIVE index_dsts(_, _, _, _)
index_dsts(ms, sess, all, f) ==
    IF ms = <<>> THEN [exc |-> "", sess |-> sess, all |-> all, cmds |-> <<>>]
    ELSE LET m == Head(ms)
             s1 == Inject(f, "dst.select", Select(sess, dstBoxes, m))
             c1 == <<Cmd("dst", "select", <<m>>, NoMsg)>>
         IN IF Raised(s1)
            THEN [exc |-> s1.exc, sess |-> sess, all |-> all, cmds |-> c1]
            ELSE LET ids == Inject(f, "dst.fetch", _get_message_ids(s1.sess, dstBoxes))
                     c2 == c1 \o <<Cmd("dst", "fetchall", <<>>, NoMsg)>>
                 IN IF Raised(ids)
                    THEN [exc |-> ids.exc, sess |-> s1.sess, all |-> all, cmds |-> c2]
                    ELSE LET r == index_dsts(Tail(ms), s1.sess,
                                             DictSet(all, m, ids.msgids), "none")
                         IN [r EXCEPT !.cmds = c2 \o @]

\* lines 92-109: the head of the pair loop, up to the search
BeginPair ==
    /\ pc = "pairs"
    /\ pairIdx <= Len(mboxes)
    /\ \E f \in FaultChoices({"src.select", "dst.select", "dst.fetch", "src.search"}) :
        LET mbox == mboxes[pairIdx]
            s0 == Inject(f, "src.select", Select(src, srcBoxes, mbox[1]))
            c0 == <<Cmd("src", "select", <<mbox[1]>>, NoMsg)>>
            l0 == <<Info(<<"Syncing">>, OnMsg(pairIdx, <<>>))>>
        IN
        IF Raised(s0)
        THEN \* line 94 is outside the inner try: the outer handler takes it
             /\ log' = log \o l0 \o <<Error(s0.exc, OnMsg(pairIdx, <<>>))>>
             /\ cmds' = cmds \o c0
             /\ pc' = "disconnect"
             /\ faults' = IF s0.exc = "abort" THEN faults - 1 ELSE faults
             /\ UNCHANGED <<src, dst, dst_msgids_all, msgnums, i>>
        ELSE LET ix == index_dsts(iter(mbox[2]), dst, <<>>, f)
                 sr == Inject(f, "src.search", Search(s0.sess, srcBoxes, search_flag))
                 c1 == c0 \o ix.cmds
             IN
             /\ src' = s0.sess
             /\ dst' = ix.sess
             /\ IF Raised(ix)
                THEN /\ log' = log \o l0 \o <<Error(ix.exc, OnMsg(pairIdx, <<>>))>>
                     /\ cmds' = cmds \o c1
                     /\ pc' = "close"
                     /\ faults' = IF ix.exc = "abort" THEN faults - 1 ELSE faults
                     /\ UNCHANGED <<dst_msgids_all, msgnums, i>>
                ELSE /\ dst_msgids_all' = ix.all
                     /\ cmds' = cmds \o c1 \o <<Cmd("src", "search", <<<<search_flag>>>>, NoMsg)>>
                     /\ IF Raised(sr)
                        THEN /\ log' = log \o l0 \o <<Error(sr.exc, OnMsg(pairIdx, <<>>))>>
                             /\ pc' = "close"
                             /\ faults' = IF sr.exc = "abort" THEN faults - 1 ELSE faults
                             /\ UNCHANGED <<msgnums, i>>
                        ELSE /\ log' = log \o l0
                             /\ msgnums' = splitws(sr.data0)
                             /\ i' = 0
                             /\ pc' = "msgs"
                             /\ UNCHANGED faults
    /\ UNCHANGED <<args, srcBoxes, dstBoxes, mboxes, pairIdx, ref_msgids,
                   from_msgids_all, refLeft, dictOrder, runs>>

\* a variant whose fetch items are BODY[...]: a fetch then sets \Seen on
\* the message; C20 tells it from peek
peek_absent == FALSE

\* lines 115, 121, 133 and 185: every fetch item is BODY.PEEK[...], which
\* leaves the flags of the fetched message alone
peek == TRUE

fetched(m) == IF peek THEN m ELSE [m EXCEPT !.seen = TRUE]

\* the source account after the fetch commands among cs were answered
RECURSIVE SrcAfter(_, _)
SrcAfter(boxes, cs) ==
    IF cs = <<>> THEN boxes
    ELSE LET c == Head(cs)
             hit == /\ c.s = "src" /\ c.c = "fetch"
                    /\ src.state = "SELECTED"
                    /\ int(c.a[1]) \in 1..Len(boxes[src.sel])
         IN SrcAfter(IF hit THEN [boxes EXCEPT ![src.sel][int(c.a[1])] = fetched(@)]
                     ELSE boxes,
                     Tail(cs))

\* the value of one pass through the body of the message loop
Step(out, brk, exc, lg, cs, d, boxes) ==
    [out |-> out, brk |-> brk, exc |-> exc, log |-> lg, cmds |-> cs,
     dst |-> d, dstBoxes |-> boxes]

\* a variant that warns and then falls through to the store of line 139
\* with no destination message; C2 tells it from sync_ignore
sync_ignore_fallthrough(out, num, warn, tail, f, cs) ==
    Step(out, FALSE, "", warn \o tail,
         cs \o <<Cmd("dst", "store", <<<<"None">>, <<store_action>>, <<"\\Seen">>>>,
                     OnMsg(pairIdx, num))>>,
         dst, dstBoxes)

\* lines 119-123 and 130-136: warn, fetch the whole header for the log, go on
sync_ignore(out, num, warn, tail, f, cs) ==
    LET on == OnMsg(pairIdx, num)
        fr == Inject(f, "src.fetch2", Fetch(src, srcBoxes, num))
        c2 == cs \o <<Cmd("src", "fetch", <<num, <<"HEADER">>>>, on)>>
    IN IF Raised(fr)
       THEN Step("raised", FALSE, fr.exc, warn \o <<Error(fr.exc, on)>>, c2, dst, dstBoxes)
       ELSE Step(out, FALSE, "", warn \o <<Warning(fr.hdr, on)>> \o tail, c2, dst, dstBoxes)

\* lines 138-146: store on the destination, then the limit and the progress
limit_reached(n) == args.limit > 0 /\ n >= args.limit

\* a variant that stores without selecting the mailbox that holds the
\* message; C18 tells it from sync_store
sync_store_unselected(num, m, dstnum, f, cs) ==
    LET on == OnMsg(pairIdx, num)
        st == Store(dst, dstBoxes, dstnum, store_action, "\\Seen")
        c2 == cs \o <<Cmd("dst", "store", <<dstnum, <<store_action>>, <<"\\Seen">>>>, on)>>
    IN IF Raised(st)
       THEN Step("raised", FALSE, st.exc, <<Error(st.exc, on)>>, c2, dst, dstBoxes)
       ELSE Step("stored", limit_reached(i), "", <<>>, c2, dst, st.boxes)

sync_store(num, m, dstnum, f, cs) ==
    LET on == OnMsg(pairIdx, num)
        sl == Inject(f, "dst.select2", Select(dst, dstBoxes, m))
        c1 == cs \o <<Cmd("dst", "select", <<m>>, on)>>
    IN IF Raised(sl)
       THEN Step("raised", FALSE, sl.exc, <<Error(sl.exc, on)>>, c1, dst, dstBoxes)
       ELSE LET st == Inject(f, "dst.store",
                             Store(sl.sess, dstBoxes, dstnum, store_action, "\\Seen"))
                c2 == c1 \o <<Cmd("dst", "store", <<dstnum, <<store_action>>, <<"\\Seen">>>>, on)>>
            IN IF Raised(st)
               THEN Step("raised", FALSE, st.exc, <<Error(st.exc, on)>>, c2, sl.sess, dstBoxes)
               ELSE IF limit_reached(i)
               THEN Step("stored", TRUE, "", <<Info(TxtLimit, on)>>, c2, sl.sess, st.boxes)
               ELSE Step("stored", FALSE, "",
                         IF i % 100 = 0 THEN <<Info(TxtSynced, on)>> ELSE <<>>,
                         c2, sl.sess, st.boxes)

\* a variant with the comparison of line 112 reversed; C6 tells it from
\* below_floor
below_floor_reversed(num) == args.min_uid > 0 /\ int(num) > args.min_uid

\* line 112
below_floor(num) == args.min_uid > 0 /\ int(num) < args.min_uid

\* line 119
no_value(val) == val = <<>>

\* lines 112-146: one pass through the body of the message loop
sync_one(num, f) ==
    LET on == OnMsg(pairIdx, num) IN
    IF below_floor(num) THEN Step("skipped", FALSE, "", <<>>, <<>>, dst, dstBoxes)
    ELSE
    LET fr == Inject(f, "src.fetch", Fetch(src, srcBoxes, num))
        c1 == <<Cmd("src", "fetch", <<num, <<"MSGID">>>>, on)>>
    IN IF Raised(fr)
       THEN Step("raised", FALSE, fr.exc, <<Error(fr.exc, on)>>, c1, dst, dstBoxes)
       ELSE
       LET h == _get_header(fr.hdr) IN
       IF Raised(h)
       THEN Step("raised", FALSE, h.exc, <<Error(h.exc, on)>>, c1, dst, dstBoxes)
       ELSE IF lower(h.hd) # lower(<<"Message-ID">>)
       THEN Step("raised", FALSE, "Exception", <<Error("Exception", on)>>, c1, dst, dstBoxes)
       ELSE IF no_value(h.val)
       THEN sync_ignore("malformed", num, <<Warning(TxtNoMsgId, on)>>, <<>>, f, c1)
       ELSE
       LET found == lookup(dst_msgids_all, h.val) IN
       IF found = <<>>
       THEN sync_ignore("unmatched", num,
                        <<Warning(TxtNotFound, on), Warning(h.val, on)>>,
                        <<Warning(TxtDashes, on)>>, f, c1)
       ELSE sync_store(num, found[1], dst_msgids_all[found[1]][h.val], f, c1)

VisitMessage ==
    /\ pc = "msgs"
    /\ i < Len(msgnums)
    /\ \E f \in FaultChoices({"src.fetch", "src.fetch2", "dst.select2", "dst.store"}) :
        LET r == sync_one(msgnums[i + 1], f) IN
        /\ log' = log \o r.log
        /\ cmds' = cmds \o r.cmds
        /\ dst' = r.dst
        /\ dstBoxes' = r.dstBoxes
        /\ srcBoxes' = SrcAfter(srcBoxes, r.cmds)
        /\ faults' = IF r.exc = "abort" THEN faults - 1 ELSE faults
        /\ IF r.exc # "" \/ r.brk
           THEN pc' = "close" /\ i' = i
           ELSE pc' = "msgs" /\ i' = i + 1
    /\ UNCHANGED <<args, src, mboxes, pairIdx, dst_msgids_all, msgnums,
                   ref_msgids, from_msgids_all, refLeft, dictOrder, runs>>

\* a variant in which what the close raises is caught by nothing; C12 tells
\* it from close_error
close_error_escapes == "crashed"

\* lines 151-154 and 203-206: what a close raises is caught and logged by the
\* handler around it, whose finally disconnects
close_error == "disconnect"

\* lines 149-152: _close(dst) in the finally of the pair; what it raises goes
\* to the outer handler, which ends the pair loop
ClosePair ==
    /\ \/ pc = "close"
       \/ pc = "msgs" /\ i >= Len(msgnums)
    /\ \E f \in FaultChoices({"dst.close"}) :
        LET r == Inject(f, "dst.close", Close(dst, dstBoxes)) IN
        /\ cmds' = cmds \o <<Cmd("dst", "close", <<>>, OnMsg(pairIdx, <<>>))>>
                        \o (IF Raised(r) THEN <<Raising("dst", "close", OnMsg(pairIdx, <<>>))>>
                            ELSE <<>>)
        /\ IF Raised(r)
           THEN /\ log' = Append(log, Error(r.exc, OnMsg(pairIdx, <<>>)))
                /\ pc' = close_error
                /\ faults' = IF r.exc = "abort" THEN faults - 1 ELSE faults
                /\ UNCHANGED <<dst, dstBoxes, pairIdx>>
           ELSE /\ dst' = r.sess
                /\ dstBoxes' = r.boxes
                /\ pairIdx' = pairIdx + 1
                /\ pc' = "pairs"
                /\ UNCHANGED <<log, faults>>
    /\ UNCHANGED <<args, srcBoxes, src, mboxes, dst_msgids_all, msgnums, i,
                   ref_msgids, from_msgids_all, refLeft, dictOrder, runs>>

----------------------------------------------------------------------------
(* _disconnect (lines 309-312), as the finally of sync_read and move_msgs  *)

Disconnect ==
    /\ \/ pc = "disconnect"
       \/ pc = "pairs" /\ pairIdx > Len(mboxes)
    /\ \E f \in FaultChoices({"src.logout", "dst.logout"}) :
        /\ src' = Logout(src)
        /\ IF f = "src.logout"
           THEN /\ cmds' = cmds \o <<Cmd("src", "logout", <<>>, NoMsg),
                                      Raising("src", "logout", NoMsg)>>
                /\ dst' = dst
                /\ pc' = "crashed"
                /\ faults' = faults - 1
           ELSE /\ cmds' = cmds \o <<Cmd("src", "logout", <<>>, NoMsg),
                                      Cmd("dst", "logout", <<>>, NoMsg)>>
                                \o (IF f = "dst.logout"
                                    THEN <<Raising("dst", "logout", NoMsg)>> ELSE <<>>)
                /\ dst' = Logout(dst)
                /\ pc' = IF f = "dst.logout" THEN "crashed" ELSE "done"
                /\ faults' = IF f = "dst.logout" THEN faults - 1 ELSE faults
    /\ UNCHANGED <<args, srcBoxes, dstBoxes, mboxes, pairIdx, dst_msgids_all,
                   msgnums, i, ref_msgids, from_msgids_all, refLeft, log,
                   dictOrder, runs>>

----------------------------------------------------------------------------
(* _get_credentials (lines 315-319) and _connect (lines 226-268), called   *)
(* without --config and for both accounts                                  *)

_get_credentials(creds) ==
    LET items == split(creds, "/", -1) IN
    IF Len(items) # 3 THEN Raise("Invalid credentials")
    ELSE [exc |-> "", items |-> items]

\* what an exception that nothing catches leaves behind: the traceback
Traceback(e) == [lvl |-> "traceback", msg |-> <<e>>, on |-> NoMsg]

\* lines 252-256 or 260-264: the credentials, IMAP(server), login
connect_one(s, creds, sess, f) ==
    LET cr == _get_credentials(creds)
        op == Inject(f, IF s = "src" THEN "src.open" ELSE "dst.open", [exc |-> ""])
        lg == Inject(f, IF s = "src" THEN "src.login" ELSE "dst.login", [exc |-> ""])
        c1 == <<Cmd(s, "open", <<>>, NoMsg)>>
        c2 == c1 \o <<Cmd(s, "login", <<>>, NoMsg)>>
    IN IF Raised(cr) THEN [exc |-> cr.exc, sess |-> sess, cmds |-> <<>>]
       ELSE IF Raised(op) THEN [exc |-> op.exc, sess |-> sess, cmds |-> <<>>]
       ELSE IF Raised(lg) THEN [exc |-> lg.exc, sess |-> sess, cmds |-> c2]
       ELSE [exc |-> "", sess |-> [state |-> "AUTH", sel |-> NoSel], cmds |-> c2]

\* lines 243-268
_connect(a, f) ==
    IF a.src = <<>> THEN [exc |-> "You must specify a source", src |-> src, dst |-> dst, cmds |-> <<>>]
    ELSE IF a.dest = <<>>
    THEN [exc |-> "You must specify a destination.", src |-> src, dst |-> dst, cmds |-> <<>>]
    ELSE LET s == connect_one("src", a.src, src, f) IN
         IF Raised(s) THEN [exc |-> s.exc, src |-> s.sess, dst |-> dst, cmds |-> s.cmds]
         ELSE LET d == connect_one("dst", a.dest, dst, f) IN
              [exc |-> d.exc, src |-> s.sess, dst |-> d.sess, cmds |-> s.cmds \o d.cmds]

\* line 80 and line 160: the call is outside every try
Connect ==
    /\ pc = "connect"
    /\ \E f \in FaultChoices({"src.open", "src.login", "dst.open", "dst.login"}) :
        LET r == _connect(args, f) IN
        /\ src' = r.src
        /\ dst' = r.dst
        /\ cmds' = cmds \o r.cmds
        /\ faults' = IF r.exc = "abort" THEN faults - 1 ELSE faults
        /\ IF Raised(r)
           THEN /\ pc' = "crashed"
                /\ log' = Append(log, Traceback(r.exc))
                /\ UNCHANGED pairIdx
           ELSE /\ log' = log
                /\ IF args.func = "sync_read"
                   THEN pc' = "pairs" /\ pairIdx' = 1
                   ELSE pc' = "move_index" /\ UNCHANGED pairIdx
    /\ UNCHANGED <<args, srcBoxes, dstBoxes, mboxes, dst_msgids_all, msgnums, i,
                   ref_msgids, from_msgids_all, refLeft, dictOrder, runs>>

----------------------------------------------------------------------------
(* move_msgs (lines 157-206)                                               *)

\* lines 158-159: raised before anything is connected, and not caught
MoveCheckArgs ==
    /\ pc = "start"
    /\ args.func = "move_msgs"
    /\ pc' = IF args.ref_mbox = <<>> \/ args.from_mbox = <<>> \/ args.to_mbox = <<>>
             THEN "crashed" ELSE "connect"
    /\ UNCHANGED <<args, srcBoxes, dstBoxes, src, dst, mboxes, pairIdx,
                   dst_msgids_all, msgnums, i, ref_msgids, from_msgids_all,
                   refLeft, log, cmds, dictOrder, faults, runs>>

\* lines 162-175: the reference index, then one index per candidate mailbox
MoveIndex ==
    /\ pc = "move_index"
    /\ \E f \in FaultChoices({"src.select", "src.fetch", "dst.select", "dst.fetch"}) :
        LET s0 == Inject(f, "src.select", Select(src, srcBoxes, args.ref_mbox))
            c0 == <<Cmd("src", "select", <<args.ref_mbox>>, NoMsg)>>
        IN
        IF Raised(s0)
        THEN /\ log' = Append(log, Error(s0.exc, NoMsg))
             /\ cmds' = cmds \o c0
             /\ pc' = "disconnect"
             /\ faults' = IF s0.exc = "abort" THEN faults - 1 ELSE faults
             /\ UNCHANGED <<src, dst, ref_msgids, from_msgids_all, refLeft, i>>
        ELSE LET ref == Inject(f, "src.fetch", _get_message_ids(s0.sess, srcBoxes))
                 c1 == c0 \o <<Cmd("src", "fetchall", <<>>, NoMsg)>>
             IN
             /\ src' = s0.sess
             /\ IF Raised(ref)
                THEN /\ log' = Append(log, Error(ref.exc, NoMsg))
                     /\ cmds' = cmds \o c1
                     /\ pc' = "disconnect"
                     /\ faults' = IF ref.exc = "abort" THEN faults - 1 ELSE faults
                     /\ UNCHANGED <<dst, ref_msgids, from_msgids_all, refLeft, i>>
                ELSE LET ix == index_dsts(args.from_mbox, dst, <<>>, f) IN
                     /\ dst' = ix.sess
                     /\ cmds' = cmds \o c1 \o ix.cmds
                     /\ faults' = IF ix.exc = "abort" THEN faults - 1 ELSE faults
                     /\ IF Raised(ix)
                        THEN /\ log' = Append(log, Error(ix.exc, NoMsg))
                             /\ pc' = "disconnect"
                             /\ UNCHANGED <<ref_msgids, from_msgids_all, refLeft, i>>
                        ELSE /\ ref_msgids' = ref.msgids
                             /\ from_msgids_all' = ix.all
                             /\ refLeft' = DOMAIN ref.msgids
                             /\ i' = 0
                             /\ pc' = "move_loop"
                             /\ UNCHANGED log
    /\ UNCHANGED <<args, srcBoxes, dstBoxes, mboxes, pairIdx, dst_msgids_all,
                   msgnums, dictOrder, runs>>

\* lines 190-200: copy into the target, flag the original deleted, count
move_copy(ref_mid, mbox, from_uid, f, on) ==
    LET sl == Inject(f, "dst.select2", Select(dst, dstBoxes, mbox))
        c1 == <<Cmd("dst", "select", <<mbox>>, on)>>
    IN IF Raised(sl)
       THEN Step("raised", FALSE, sl.exc, <<Error(sl.exc, on)>>, c1, dst, dstBoxes)
       ELSE
       LET cp == Inject(f, "dst.copy", Copy(sl.sess, dstBoxes, from_uid, args.to_mbox))
           c2 == c1 \o <<Cmd("dst", "copy", <<from_uid, args.to_mbox>>, on)>>
       IN IF Raised(cp)
          THEN Step("raised", FALSE, cp.exc, <<Error(cp.exc, on)>>, c2, sl.sess, dstBoxes)
          ELSE
          LET st == Inject(f, "dst.store",
                           Store(sl.sess, cp.boxes, from_uid, "+FLAGS.SILENT", "\\Deleted"))
              c3 == c2 \o <<Cmd("dst", "store",
                                <<from_uid, <<"+FLAGS.SILENT">>, <<"\\Deleted">>>>, on)>>
          IN IF Raised(st)
             THEN Step("raised", FALSE, st.exc, <<Error(st.exc, on)>>, c3, sl.sess, cp.boxes)
             ELSE IF args.limit > 0 /\ i + 1 >= args.limit
             THEN Step("moved", TRUE, "", <<Info(TxtLimit, on)>>, c3, sl.sess, st.boxes)
             ELSE Step("moved", FALSE, "",
                       IF (i + 1) % 100 = 0 THEN <<Info(TxtSynced, on)>> ELSE <<>>,
                       c3, sl.sess, st.boxes)

\* lines 176-200: one pass through the loop over the reference index
move_one(ref_mid, f) ==
    LET ref_uid == ref_msgids[ref_mid]
        on == OnMsg(0, ref_uid)
        found == lookup(from_msgids_all, ref_mid)
    IN IF found = <<>>
       THEN LET fr == Inject(f, "src.fetch2", Fetch(src, srcBoxes, ref_uid))
                c1 == <<Cmd("src", "fetch", <<ref_uid, <<"HEADER">>>>, on)>>
                w == <<Warning(TxtNotFound, on), Warning(ref_mid, on)>>
            IN IF Raised(fr)
               THEN Step("raised", FALSE, fr.exc, w \o <<Error(fr.exc, on)>>, c1, dst, dstBoxes)
               ELSE Step("unmatched", FALSE, "",
                         w \o <<Warning(fr.hdr, on), Warning(TxtDashes, on)>>,
                         c1, dst, dstBoxes)
       ELSE move_copy(ref_mid, found[1], from_msgids_all[found[1]][ref_mid], f, on)

\* the reference index is a dict keyed by message-ID: its iteration order is
\* arbitrary, every order is a possible run
MoveOne ==
    /\ pc = "move_loop"
    /\ refLeft # {}
    /\ \E ref_mid \in refLeft :
       \E f \in FaultChoices({"src.fetch2", "dst.select2", "dst.copy", "dst.store"}) :
        LET r == move_one(ref_mid, f) IN
        /\ log' = log \o r.log
        /\ cmds' = cmds \o r.cmds
        /\ dst' = r.dst
        /\ dstBoxes' = r.dstBoxes
        /\ srcBoxes' = SrcAfter(srcBoxes, r.cmds)
        /\ refLeft' = refLeft \ {ref_mid}
        /\ faults' = IF r.exc = "abort" THEN faults - 1 ELSE faults
        /\ i' = IF r.out = "moved" THEN i + 1 ELSE i
        /\ pc' = IF r.exc # "" THEN "disconnect"
                 ELSE IF r.brk THEN "move_end" ELSE "move_loop"
    /\ UNCHANGED <<args, src, mboxes, pairIdx, dst_msgids_all, msgnums,
                   ref_msgids, from_msgids_all, dictOrder, runs>>

\* lines 201-204: expunge the mailbox selected last, close it
MoveEnd ==
    /\ \/ pc = "move_end"
       \/ pc = "move_loop" /\ refLeft = {}
    /\ \E f \in FaultChoices({"dst.expunge", "dst.close"}) :
        LET ex == Inject(f, "dst.expunge", Expunge(dst, dstBoxes))
            c1 == <<Cmd("dst", "expunge", <<>>, NoMsg)>>
        IN
        /\ IF Raised(ex)
           THEN /\ log' = Append(log, Error(ex.exc, NoMsg))
                /\ pc' = "disconnect"
                /\ cmds' = cmds \o c1
                /\ faults' = IF ex.exc = "abort" THEN faults - 1 ELSE faults
                /\ UNCHANGED <<dst, dstBoxes>>
           ELSE LET cl == Inject(f, "dst.close", Close(dst, ex.boxes)) IN
                /\ cmds' = cmds \o c1 \o <<Cmd("dst", "close", <<>>, NoMsg)>>
                                \o (IF Raised(cl) THEN <<Raising("dst", "close", NoMsg)>>
                                    ELSE <<>>)
                /\ faults' = IF cl.exc = "abort" THEN faults - 1 ELSE faults
                /\ IF Raised(cl)
                   THEN /\ log' = Append(log, Error(cl.exc, NoMsg))
                        /\ pc' = close_error
                        /\ dstBoxes' = ex.boxes
                        /\ UNCHANGED dst
                   ELSE /\ dst' = cl.sess
                        /\ pc' = "disconnect"
                        /\ dstBoxes' = cl.boxes
                        /\ UNCHANGED log
    /\ UNCHANGED <<args, srcBoxes, src, mboxes, pairIdx, dst_msgids_all, msgnums, i,
                   ref_msgids, from_msgids_all, refLeft, dictOrder, runs>>

----------------------------------------------------------------------------
(* The worlds a run starts in.                                             *)

W == <<"W">>
T == <<"T">>
Q == <<"Q">>    \* a mailbox that exists on neither account

SrcNames == {INBOX}
DstNames == {INBOX, W, T}

HdrOf(name, k) == <<name, ":", " ", k, "\n">>
HdrEmpty == <<"Message-ID", ":", " ", "\n">>
HdrAbsent == <<"\n">>

SrcHdrs == {HdrOf("Message-ID", "a"), HdrOf("Message-Id", "b"), HdrEmpty, HdrAbsent}
DstHdrs == {HdrOf("Message-ID", "a"), HdrOf("Message-Id", "b")}

Seqs(S, n) == UNION {[1..k -> S] : k \in 0..n}

\* a mailbox with the given messages; "was" remembers the initial seen flag,
\* "touched" whether a store has acted on the message, and "id" tells a
\* message from every other one of its account
Mailbox(name, raw) ==
    [p \in DOMAIN raw |->
        [hdr |-> raw[p].hdr, seen |-> raw[p].seen, deleted |-> raw[p].deleted,
         was |-> raw[p].seen, touched |-> FALSE,
         id |-> [box |-> name, pos |-> p, gen |-> 0]]]

\* A mapping file is written down field by field: a line is a sequence of
\* fields, a field the text between two commas.
RECURSIVE Join(_, _)
Join(fields, sep) ==
    IF fields = <<>> THEN <<>>
    ELSE IF Len(fields) = 1 THEN fields[1]
    ELSE fields[1] \o <<sep>> \o Join(Tail(fields), sep)

Line(fields) == Join(fields, ",") \o <<"\n">>
MapFile(lines) ==
    [given |-> TRUE, lines |-> [p \in DOMAIN lines |-> Line(lines[p])], fields |-> lines]
NoMap == [given |-> FALSE, lines |-> <<>>, fields |-> <<>>]

OnePairMap == MapFile(<< <<INBOX>> >>)
TwoDestMaps == {MapFile(<< <<INBOX, INBOX, W>> >>), MapFile(<< <<INBOX, W, INBOX>> >>)}
TwoPairMap == MapFile(<< <<INBOX, W>>, <<INBOX>> >>)
BadPairMap == MapFile(<< <<INBOX, Q>>, <<INBOX>> >>)

Limits == {-1} \cup 1..MaxLimit
Floors == {-1, MaxSrc}
HashOrder == <<INBOX, W, T>>
DictOrders == {HashOrder, <<W, INBOX, T>>}

\* "--src" and "--dest": <server>/<user>/<pwd>
GoodCreds == <<"srv", "/", "usr", "/", "pwd">>

Args(func, map, mode, limit, min_uid, ref_mbox, from_mbox, to_mbox) ==
    [func |-> func, map |-> map, mode |-> mode, limit |-> limit,
     min_uid |-> min_uid, ref_mbox |-> ref_mbox, from_mbox |-> from_mbox,
     to_mbox |-> to_mbox, src |-> GoodCreds, dest |-> GoodCreds]

SyncArgs(map, mode, limit, min_uid) ==
    Args("sync_read", map, mode, limit, min_uid, <<>>, <<>>, <<>>)

\* the process has just called args.func(args)
InitLocals ==
    /\ src = [state |-> "NONAUTH", sel |-> NoSel]
    /\ dst = [state |-> "NONAUTH", sel |-> NoSel]
    /\ pc = "start"
    /\ mboxes = <<>>
    /\ pairIdx = 0
    /\ dst_msgids_all = <<>>
    /\ msgnums = <<>>
    /\ i = 0
    /\ ref_msgids = <<>>
    /\ from_msgids_all = <<>>
    /\ refLeft = {}
    /\ log = <<>>
    /\ cmds = <<>>

\* ... and no protocol call raises out of the blue
InitProcess == InitLocals /\ faults = 0

\* INBOX on the source; INBOX, W and the empty T on the destination
InitBoxes(srcKinds, inboxKinds, wKinds) ==
    /\ \E raw \in Seqs(srcKinds, MaxSrc) :
        srcBoxes = [n \in SrcNames |-> Mailbox(n, raw)]
    /\ \E rawI \in Seqs(inboxKinds, MaxDst), rawW \in Seqs(wKinds, MaxDst) :
        dstBoxes = [n \in DstNames |->
                      IF n = INBOX THEN Mailbox(n, rawI)
                      ELSE IF n = W THEN Mailbox(n, rawW) ELSE <<>>]

SyncSrcKinds == [hdr : SrcHdrs, seen : BOOLEAN, deleted : {FALSE}]
SyncDstKinds == [hdr : DstHdrs, seen : BOOLEAN, deleted : {FALSE}]
SyncDelKinds == [hdr : DstHdrs, seen : BOOLEAN, deleted : BOOLEAN]
MoveSrcKinds == [hdr : SrcHdrs, seen : {FALSE}, deleted : {FALSE}]
MoveDstKinds == [hdr : DstHdrs \cup {HdrEmpty}, seen : {FALSE}, deleted : BOOLEAN]

\* "read --mode M --map FILE [--limit N | --min_uid F]", FILE = "INBOX":
\* the destination may hold messages already flagged \Deleted
InitOnePair(modes) ==
    /\ InitProcess
    /\ InitBoxes(SyncSrcKinds, SyncDelKinds, {})
    /\ \E mode \in modes, limit \in Limits, floor \in Floors :
        /\ limit < 0 \/ floor < 0
        /\ args = SyncArgs(OnePairMap, mode, limit, floor)
    /\ dictOrder = HashOrder

\* "read --mode M --map FILE", FILE = "INBOX,INBOX,W" or "INBOX,W,INBOX"
InitTwoDest(modes) ==
    /\ InitProcess
    /\ InitBoxes(SyncSrcKinds, SyncDstKinds, SyncDstKinds)
    /\ \E mode \in modes, map \in TwoDestMaps : args = SyncArgs(map, mode, -1, -1)
    /\ dictOrder \in DictOrders

\* "read --mode M [--map FILE]" with FILE of two lines, or without --map
InitManyPairs ==
    /\ InitProcess
    /\ \/ /\ InitBoxes(SyncSrcKinds, SyncDstKinds, SyncDstKinds)
          /\ \E mode \in {"read", "unread"} : args = SyncArgs(TwoPairMap, mode, -1, -1)
       \/ /\ InitBoxes(SyncSrcKinds, SyncDstKinds, {})
          /\ \E mode \in {"read", "unread"}, map \in {NoMap, BadPairMap} :
                args = SyncArgs(map, mode, -1, -1)
    /\ dictOrder = HashOrder

InitSync ==
    /\ \/ InitOnePair({"read", "unread"})
       \/ InitTwoDest({"read", "unread"})
       \/ InitManyPairs
    /\ runs = <<>>

\* "move --ref_mbox INBOX --from_mbox ... --to_mbox ... [--limit N]"
InitMove ==
    /\ InitProcess
    /\ \/ /\ InitBoxes(MoveSrcKinds, MoveDstKinds, {})
          /\ \E to \in {T, Q, <<>>}, limit \in Limits :
                /\ to = <<>> => limit < 0
                /\ args = Args("move_msgs", NoMap, "unread", limit, -1, INBOX, <<INBOX>>, to)
          /\ dictOrder = HashOrder
       \/ /\ InitBoxes(MoveSrcKinds, MoveDstKinds, MoveDstKinds)
          /\ \E from \in {<<INBOX, W>>, <<W, INBOX>>}, to \in {T, Q} :
                args = Args("move_msgs", NoMap, "unread", -1, -1, INBOX, from, to)
          /\ dictOrder \in DictOrders
    /\ runs = <<>>

Init == InitSync \/ InitMove

NextSync ==
    \/ GetMailboxes
    \/ Connect
    \/ BeginPair
    \/ VisitMessage
    \/ ClosePair
    \/ Disconnect

NextMove ==
    \/ MoveCheckArgs
    \/ MoveIndex
    \/ MoveOne
    \/ MoveEnd

Next == NextSync \/ NextMove

\* one run of "read" or of "move"
Spec == Init /\ [][Next]_vars

----------------------------------------------------------------------------
(* Two runs in a row: "read --mode read", then "read --mode unread", on    *)
(* the same accounts.                                                      *)

Rerun ==
    /\ pc = "done"
    /\ runs # <<>>
    /\ args' = [args EXCEPT !.mode = Head(runs)]
    /\ runs' = Tail(runs)
    /\ src' = [state |-> "NONAUTH", sel |-> NoSel]
    /\ dst' = [state |-> "NONAUTH", sel |-> NoSel]
    /\ pc' = "start"
    /\ mboxes' = <<>>
    /\ pairIdx' = 0
    /\ dst_msgids_all' = <<>>
    /\ msgnums' = <<>>
    /\ i' = 0
    /\ UNCHANGED <<srcBoxes, dstBoxes, ref_msgids, from_msgids_all, refLeft, log,
                   cmds, dictOrder, faults>>

InitRoundTrip ==
    /\ \/ InitOnePair({"read"})
       \/ InitTwoDest({"read"})
    /\ args.limit < 0
    /\ args.min_uid < 0
    /\ runs = <<"unread">>

NextRoundTrip == NextSync \/ Rerun

SpecRoundTrip == InitRoundTrip /\ [][NextRoundTrip]_vars

----------------------------------------------------------------------------
(* Runs in which the accounts may be badly described and one protocol call *)
(* may raise whatever the state of the session (a lost connection).        *)

MaxFaults == 1

BadCreds == {<<"srv", "/", "usr">>, <<"srv", "/", "usr", "/", "p", "/", "wd">>}
CredChoices == {GoodCreds, <<>>} \cup BadCreds

FaultSrcKinds == [hdr : {HdrOf("Message-ID", "a")}, seen : BOOLEAN, deleted : {FALSE}]
FaultDstKinds == [hdr : {HdrOf("Message-ID", "a")}, seen : {FALSE}, deleted : {FALSE}]

InitFaults ==
    /\ InitLocals
    /\ faults = MaxFaults
    /\ InitBoxes(FaultSrcKinds, FaultDstKinds, {})
    /\ \E cs \in CredChoices, cd \in CredChoices :
        \/ \E map \in {OnePairMap, TwoPairMap} :
              args = [SyncArgs(map, "unread", -1, -1) EXCEPT !.src = cs, !.dest = cd]
        \/ args = [Args("move_msgs", NoMap, "unread", -1, -1, INBOX, <<INBOX>>, T)
                      EXCEPT !.src = cs, !.dest = cd]
    /\ dictOrder = HashOrder
    /\ runs = <<>>

SpecFaults == InitFaults /\ [][Next]_vars

----------------------------------------------------------------------------
(* Runs over messages whose Message-ID holds a colon.                      *)

HdrColon(x) == <<"Message-ID", ":", " ", "a", ":", x, "\n">>
ColonHdrs == {HdrColon("1"), HdrColon("2"), HdrOf("Message-ID", "a")}

ColonSrcKinds == [hdr : ColonHdrs, seen : BOOLEAN, deleted : {FALSE}]
ColonDstKinds == [hdr : ColonHdrs, seen : BOOLEAN, deleted : {FALSE}]
ColonRefKinds == [hdr : ColonHdrs, seen : {FALSE}, deleted : {FALSE}]

InitColon ==
    /\ InitProcess
    /\ \/ /\ InitBoxes(ColonSrcKinds, ColonDstKinds, {})
          /\ \E mode \in {"read", "unread"} : args = SyncArgs(OnePairMap, mode, -1, -1)
       \/ /\ InitBoxes(ColonRefKinds, ColonRefKinds, {})
          /\ args = Args("move_msgs", NoMap, "unread", -1, -1, INBOX, <<INBOX>>, T)
    /\ dictOrder = HashOrder
    /\ runs = <<>>

SpecColon == InitColon /\ [][Next]_vars

----------------------------------------------------------------------------
(* The pair resolver alone, over every mapping file of at most MaxLines    *)
(* lines of at most MaxFields fields.                                      *)

FieldTexts == {W, <<" ">> \o INBOX \o <<" ">>, <<>>}
MapLines == UNION {[1..k -> FieldTexts] : k \in 1..MaxFields}
MapFiles == {MapFile(ls) : ls \in Seqs(MapLines, MaxLines)} \cup {NoMap}

InitMap ==
    /\ InitProcess
    /\ srcBoxes = [n \in SrcNames |-> <<>>]
    /\ dstBoxes = [n \in DstNames |-> <<>>]
    /\ \E map \in MapFiles : args = SyncArgs(map, "unread", -1, -1)
    /\ dictOrder = HashOrder
    /\ runs = <<>>

SpecMap == InitMap /\ [][GetMailboxes]_vars

----------------------------------------------------------------------------
(* Vocabulary of the properties.                                           *)

\* the Message-ID of a message: what follows the first colon of its header
\* line, trimmed; empty when the header is absent or has no value
HeaderValue(hdr) ==
    IF find(hdr, ":") = 0 THEN <<>>
    ELSE strip(SubSeq(hdr, find(hdr, ":") + 1, Len(hdr)))

\* the source message with sequence number num of the selected mailbox
SrcMsg(num) == srcBoxes[src.sel][int(num)]

SrcInbox == {srcBoxes[INBOX][n] : n \in DOMAIN srcBoxes[INBOX]}
DstMsgs == UNION {{dstBoxes[m][q] : q \in DOMAIN dstBoxes[m]} : m \in DOMAIN dstBoxes}

NoErrorLogged == \A e \in DOMAIN log : log[e].lvl # "error"
Logged(lvl, text, on) == \E e \in DOMAIN log : log[e] = [lvl |-> lvl, msg |-> text, on |-> on]

\* the source messages of pair p that the message loop has fetched so far
Visited(p) ==
    {cmds[j].on.num : j \in {j \in DOMAIN cmds :
        /\ cmds[j].s = "src"
        /\ cmds[j].c = "fetch"
        /\ cmds[j].a[2] = <<"MSGID">>
        /\ cmds[j].on.pair = p}}

\* the store, copy and delete-flag commands issued on the destination on
\* behalf of a message
DstMutations(on) ==
    {j \in DOMAIN cmds :
        cmds[j].s = "dst" /\ cmds[j].c \in {"store", "copy"} /\ cmds[j].on = on}

InNoIndex(all, k) == \A m \in DOMAIN all : k \notin DOMAIN all[m]

\* the message loop of sync_read is running or has just ended
InPair == args.func = "sync_read" /\ pc \in {"msgs", "close"}

\* the message of the destination that the index of the first mailbox, in the
\* order the engine looks them up, holds under k (none when it was expunged)
IndexedUnder(k) ==
    LET m == lookup(dst_msgids_all, k)[1]
        p == int(dst_msgids_all[m][k])
    IN {d \in DstMsgs : d.id = [box |-> m, pos |-> p, gen |-> 0]}

----------------------------------------------------------------------------
(* C1: flag reconciliation over one pair                                   *)

OnePairDone ==
    /\ args.func = "sync_read"
    /\ pc = "done"
    /\ Len(mboxes) = 1
    /\ args.limit < 0
    /\ args.min_uid < 0
    /\ NoErrorLogged

\* C1, as claimed: after a run over one pair with no limit, no floor and no
\* error, for every non-empty message-ID k that is on a source message and in
\* a destination index, the destination message indexed under k is seen in
\* mode "read" and not seen in mode "unread", whatever the source message's
\* seen state was.
C1_AnySourceState ==
    OnePairDone =>
        \A s \in SrcInbox :
            LET k == HeaderValue(s.hdr) IN
            (k # <<>> /\ ~InNoIndex(dst_msgids_all, k)) =>
                \A d \in IndexedUnder(k) : d.seen = (args.mode = "read")

\* C1, amended: the same for the source messages that the search of the mode
\* returns (seen ones in mode "read", unseen ones in mode "unread"); the
\* destination message is the one of the first mailbox, in lookup order, whose
\* index holds k, when the closing of the mailbox has not expunged it.
C1_SearchedSource ==
    OnePairDone =>
        \A s \in SrcInbox :
            LET k == HeaderValue(s.hdr) IN
            (s.seen = (args.mode = "read") /\ k # <<>> /\ ~InNoIndex(dst_msgids_all, k)) =>
                \A d \in IndexedUnder(k) : d.seen = (args.mode = "read")

\* a run that flipped the flag of a matched destination message
C1_Witness ==
    /\ OnePairDone
    /\ \E s \in SrcInbox :
        /\ s.seen = (args.mode = "read")
        /\ HeaderValue(s.hdr) # <<>>
        /\ ~InNoIndex(dst_msgids_all, HeaderValue(s.hdr))
        /\ \E d \in IndexedUnder(HeaderValue(s.hdr)) :
            d.touched /\ d.was # d.seen /\ d.seen = (args.mode = "read")

----------------------------------------------------------------------------
(* C2: unmatched messages                                                  *)

Unharmed(on, k) ==
    /\ DstMutations(on) = {}
    /\ Logged("warning", TxtNotFound, on)
    /\ Logged("warning", k, on)
    /\ \A e \in DOMAIN log :
        log[e].on = on => log[e].lvl # "error" /\ log[e].msg # TxtLimit

C2_Sync ==
    InPair =>
        \A num \in Visited(pairIdx) :
            LET k == HeaderValue(SrcMsg(num).hdr) IN
            (k # <<>> /\ InNoIndex(dst_msgids_all, k)) => Unharmed(OnMsg(pairIdx, num), k)

C2_Move ==
    (args.func = "move_msgs" /\ pc \in {"move_loop", "move_end", "disconnect", "done"}) =>
        \A k \in DOMAIN ref_msgids \ refLeft :
            InNoIndex(from_msgids_all, k) => Unharmed(OnMsg(0, ref_msgids[k]), k)

\* C2: in both engines a processed message whose message-ID is in none of
\* the destination/candidate indexes has caused no store or copy on the
\* destination, a warning naming its message-ID is logged, and its pass
\* through the loop neither raised nor ended the loop.
C2_UnmatchedUntouched == C2_Sync /\ C2_Move

\* an unmatched message was passed over and a later one was stored to
C2_Witness ==
    /\ InPair
    /\ \E num \in Visited(pairIdx), later \in Visited(pairIdx) :
        /\ HeaderValue(SrcMsg(num).hdr) # <<>>
        /\ InNoIndex(dst_msgids_all, HeaderValue(SrcMsg(num).hdr))
        /\ int(later) > int(num)
        /\ DstMutations(OnMsg(pairIdx, later)) # {}

----------------------------------------------------------------------------
(* C3: messages without a Message-ID                                       *)

\* C3, as claimed: a visited source message whose Message-ID header is empty
\* or absent causes no store on the destination and is logged as malformed
\* together with its raw header block.
C3_MalformedLogged ==
    InPair =>
        \A num \in Visited(pairIdx) :
            HeaderValue(SrcMsg(num).hdr) = <<>> =>
                /\ DstMutations(OnMsg(pairIdx, num)) = {}
                /\ Logged("warning", TxtNoMsgId, OnMsg(pairIdx, num))
                /\ Logged("warning", SrcMsg(num).hdr, OnMsg(pairIdx, num))

----------------------------------------------------------------------------
(* C4: priority among the destinations                                     *)

\* the mailboxes of the caller's list whose index holds k, in list order
HoldersInListOrder(list, all, k) ==
    SelectSeq(list, LAMBDA m : m \in DOMAIN all /\ k \in DOMAIN all[m])

\* the selects issued on the destination on behalf of a message
MatchSelects ==
    {j \in DOMAIN cmds :
        cmds[j].s = "dst" /\ cmds[j].c = "select" /\ cmds[j].on.num # <<>>}

C4_Sync ==
    InPair =>
        \A j \in MatchSelects :
            cmds[j].on.pair = pairIdx =>
                cmds[j].a[1] =
                    HoldersInListOrder(iter(mboxes[pairIdx][2]), dst_msgids_all,
                                       HeaderValue(SrcMsg(cmds[j].on.num).hdr))[1]

C4_Move ==
    (args.func = "move_msgs" /\ pc \in {"move_loop", "move_end"}) =>
        \A j \in MatchSelects :
            \A k \in DOMAIN ref_msgids :
                ref_msgids[k] = cmds[j].on.num =>
                    cmds[j].a[1] = HoldersInListOrder(args.from_mbox, from_msgids_all, k)[1]

\* C4, as claimed: the mailbox selected for a matched message is the first
\* one of the caller's list whose index holds the message-ID.
C4_FirstInListWins == C4_Sync /\ C4_Move

----------------------------------------------------------------------------
(* C5: the processing limit                                                *)

LoopEnded == pc = "close" \/ (pc = "msgs" /\ i >= Len(msgnums))
PairError == \E e \in DOMAIN log : log[e].lvl = "error" /\ log[e].on.pair = pairIdx
Min(a, b) == IF a < b THEN a ELSE b

\* C5, as claimed: with a limit N > 0, when the message loop of a pair has
\* stopped without an error, min(N, number of search results) source messages
\* have been visited.
C5_ExactlyLimitVisited ==
    (args.func = "sync_read" /\ args.limit > 0 /\ pc \in {"msgs", "close"}
        /\ LoopEnded /\ ~PairError) =>
        Cardinality(Visited(pairIdx)) = Min(args.limit, Len(msgnums))

----------------------------------------------------------------------------
(* C6: the minimum-identifier floor                                        *)

\* C6: with a floor F > 0, every per-message fetch on the source names a
\* number >= F, and every store or select on the destination is on behalf of
\* a source message numbered >= F.
C6_NothingBelowFloor ==
    (args.func = "sync_read" /\ args.min_uid > 0) =>
        \A j \in DOMAIN cmds :
            /\ (cmds[j].s = "src" /\ cmds[j].c = "fetch") =>
                    int(cmds[j].a[1]) >= args.min_uid
            /\ (cmds[j].s = "dst" /\ cmds[j].c \in {"store", "select"}
                    /\ cmds[j].on.num # <<>>) =>
                    int(cmds[j].on.num) >= args.min_uid

\* the search returned a message below the floor and the loop went past it
\* to fetch one at the floor
C6_Witness ==
    /\ InPair
    /\ args.min_uid > 0
    /\ i >= 2
    /\ int(msgnums[1]) < args.min_uid
    /\ Visited(pairIdx) # {}

----------------------------------------------------------------------------
(* C7: "read" then "unread"                                                *)

RoundTripDone ==
    /\ pc = "done"
    /\ runs = <<>>
    /\ args.mode = "unread"
    /\ NoErrorLogged

\* C7, as claimed: after "read" and then "unread" every destination message
\* that was matched (stored to) has the seen state it had before the first
\* run.
C7_Restored ==
    RoundTripDone => \A d \in DstMsgs : d.touched => d.seen = d.was

\* C7, amended: after "read" and then "unread" every matched destination
\* message has the seen state of the source: not seen when a source message
\* with its message-ID is unseen, seen otherwise.
C7_FollowsSource ==
    RoundTripDone =>
        \A d \in DstMsgs :
            d.touched =>
                d.seen = ~(\E s \in SrcInbox :
                              ~s.seen /\ HeaderValue(s.hdr) = HeaderValue(d.hdr))

\* both runs are over and a matched destination message was changed
C7_Witness ==
    /\ RoundTripDone
    /\ \E d \in DstMsgs : d.touched /\ d.seen # d.was

----------------------------------------------------------------------------
(* C8: no mapping file                                                     *)

\* the mailboxes selected on the destination to build the indexes
IndexSelects ==
    SelectSeq(cmds, LAMBDA c : c.s = "dst" /\ c.c = "select" /\ c.on = NoMsg)

\* C8, as claimed: without --map there is one pair, its source is INBOX, and
\* the flag engine selects exactly one destination mailbox, INBOX, to index.
C8_DefaultIsInbox ==
    (args.func = "sync_read" /\ ~args.map.given
        /\ pc \in {"msgs", "close", "disconnect", "done"}) =>
        /\ Len(mboxes) = 1
        /\ mboxes[1][1] = INBOX
        /\ [j \in DOMAIN IndexSelects |-> IndexSelects[j].a[1]] = <<INBOX>>

----------------------------------------------------------------------------
(* C9: the lines of a mapping file                                         *)

\* what the claim says a file resolves to, from the fields it was written with
RECURSIVE ExpectedPairs(_)
ExpectedPairs(lines) ==
    IF lines = <<>> THEN <<>>
    ELSE LET f == [p \in DOMAIN Head(lines) |-> strip(Head(lines)[p])]
             rest == ExpectedPairs(Tail(lines))
         IN IF Len(f) = 1 /\ f[1] = <<>> THEN rest
            ELSE IF Len(f) >= 2
                 THEN << <<f[1], PyList(SubSeq(f, 2, Len(f)))>> >> \o rest
                 ELSE << <<f[1], PyList(<<f[1]>>)>> >> \o rest

\* C9: each non-blank line, in file order, gives one pair: trimmed fields
\* f1,...,fn (n >= 2) give (f1, [f2,...,fn]), a single field f gives (f, [f]);
\* blank lines give nothing.
C9_LinesToPairs ==
    (pc = "connect" /\ args.map.given) => mboxes = ExpectedPairs(args.map.fields)

\* a file with a one-field line and a two-field line, resolved
C9_Witness ==
    /\ pc = "connect"
    /\ args.map.given
    /\ mboxes = << <<W, PyList(<<W>>)>>, <<INBOX, PyList(<<W>>)>> >>

----------------------------------------------------------------------------
(* C10: a failing pair                                                     *)

\* C10, as claimed: whatever failed in a pair, at the end of sync_read every
\* pair of the list was begun and both sessions are logged out.
C10_LaterPairsProcessed ==
    (args.func = "sync_read" /\ pc = "done") =>
        /\ \A p \in 1..Len(mboxes) : Logged("info", <<"Syncing">>, OnMsg(p, <<>>))
        /\ src.state = "LOGOUT"
        /\ dst.state = "LOGOUT"

----------------------------------------------------------------------------
(* C11: teardown on every exit path                                        *)

\* the run is over: the function returned, or an exception left it
Exited == pc \in {"done", "crashed"}

Opened(s) == \E j \in DOMAIN cmds : cmds[j].s = s /\ cmds[j].c = "open"
LogoutIssued(s) == \E j \in DOMAIN cmds : cmds[j].s = s /\ cmds[j].c = "logout"
Session(s) == IF s = "src" THEN src ELSE dst

\* C11, as claimed: when the run is over, every session that was opened has
\* been sent a logout and holds no selected mailbox.
C11_AllTornDown ==
    Exited =>
        \A s \in {"src", "dst"} :
            Opened(s) => LogoutIssued(s) /\ Session(s).state # "SELECTED"

----------------------------------------------------------------------------
(* C12: a close that raises                                                *)

CloseRaised == \E j \in DOMAIN cmds : cmds[j].c = "raised" /\ cmds[j].a = << <<"close">> >>
LogoutRaised == \E j \in DOMAIN cmds : cmds[j].c = "raised" /\ cmds[j].a = << <<"logout">> >>

\* C12: in both engines, when the closing of a mailbox has raised, the run
\* ends with a logout issued on the source and on the destination session
\* (unless the logout of the source raises in its turn).
C12_LogoutAfterCloseError ==
    (Exited /\ CloseRaised /\ ~LogoutRaised) =>
        LogoutIssued("src") /\ LogoutIssued("dst")

\* sync_read returned after a close of the destination had raised
C12_Witness ==
    /\ args.func = "sync_read"
    /\ pc = "done"
    /\ CloseRaised
    /\ LogoutIssued("src")
    /\ LogoutIssued("dst")

----------------------------------------------------------------------------
(* C13: configuration errors                                               *)

ConfigErrorRaised ==
    \E e \in DOMAIN log :
        log[e].lvl = "traceback" /\ log[e].msg = <<"Invalid credentials">>

\* C13, as claimed: when a badly formed account descriptor has been refused,
\* no connection to either mail store has been opened.
C13_NoSessionAtConfigError ==
    ConfigErrorRaised => ~Opened("src") /\ ~Opened("dst")

----------------------------------------------------------------------------
(* C14: what a placement run leaves behind                                 *)

BoxMsgs(boxes, m) == {boxes[m][q] : q \in DOMAIN boxes[m]}

\* the candidate message that the index of mailbox m holds under k
Original(m, k) == [box |-> m, pos |-> int(from_msgids_all[m][k]), gen |-> 0]

\* ... is still in its mailbox / has a copy in mailbox t
StillThere(m, k) == \E d \in BoxMsgs(dstBoxes, m) : d.id = Original(m, k)
CopiedTo(t, m, k) ==
    \E c \in BoxMsgs(dstBoxes, t) : c.id = [Original(m, k) EXCEPT !.gen = 1]

\* move_msgs went through the whole reference index, expunged and closed,
\* without an exception and without a limit, into a mailbox that exists,
\* and no message-ID is in two candidate indexes
MoveComplete ==
    /\ args.func = "move_msgs"
    /\ pc \in {"disconnect", "done"}
    /\ NoErrorLogged
    /\ args.limit < 0
    /\ args.to_mbox \in DOMAIN dstBoxes
    /\ \A m1 \in DOMAIN from_msgids_all, m2 \in DOMAIN from_msgids_all :
            m1 # m2 => DOMAIN from_msgids_all[m1] \cap DOMAIN from_msgids_all[m2] = {}

\* C14, as claimed: after such a run every candidate message whose
\* (non-empty) message-ID is in the reference index has a copy in the target
\* mailbox and is gone from its own mailbox.
C14_MovedAndRemoved ==
    MoveComplete =>
        \A m \in DOMAIN from_msgids_all :
            \A k \in (DOMAIN from_msgids_all[m] \cap DOMAIN ref_msgids) \ {<<>>} :
                CopiedTo(args.to_mbox, m, k) /\ ~StillThere(m, k)

----------------------------------------------------------------------------
(* C15: reference messages without a Message-ID                            *)

\* the reference message that move_msgs knows under the number num
RefMsg(num) == srcBoxes[args.ref_mbox][int(num)]

\* C15, as claimed: move_msgs issues no copy and no store on the destination
\* on behalf of a reference message whose Message-ID is empty or absent.
C15_MalformedRefUntouched ==
    args.func = "move_msgs" =>
        \A j \in DOMAIN cmds :
            (cmds[j].s = "dst" /\ cmds[j].c \in {"copy", "store"}) =>
                HeaderValue(RefMsg(cmds[j].on.num).hdr) # <<>>

----------------------------------------------------------------------------
(* C16: a malformed message and the rest of its pair                       *)

\* C16, as claimed: in sync_read without limit and floor, when the message
\* loop of a pair has been left, every message of the search result that
\* comes after a visited message with an empty or absent Message-ID has been
\* visited too.
C16_MalformedGoesOn ==
    (args.func = "sync_read" /\ pc = "close" /\ args.limit < 0 /\ args.min_uid < 0) =>
        \A p \in DOMAIN msgnums :
            (msgnums[p] \in Visited(pairIdx)
                /\ HeaderValue(SrcMsg(msgnums[p]).hdr) = <<>>) =>
                \A q \in (p + 1)..Len(msgnums) : msgnums[q] \in Visited(pairIdx)

----------------------------------------------------------------------------
(* C17: matching is equality of the whole Message-ID                       *)

\* the store and copy commands issued on the destination while the engine
\* is in its message loop, when the numbers of the indexes are still valid
LiveMutations ==
    IF pc \in {"msgs", "close", "move_loop", "move_end"}
    THEN {j \in DOMAIN cmds :
            /\ cmds[j].s = "dst"
            /\ cmds[j].c \in {"store", "copy"}
            /\ cmds[j].on.pair = (IF args.func = "sync_read" THEN pairIdx ELSE 0)}
    ELSE {}

\* the mailbox selected on the destination when command j was issued
SelectedAt(j) ==
    LET q == CHOOSE q \in 1..(j - 1) :
                /\ cmds[q].s = "dst" /\ cmds[q].c = "select"
                /\ \A r \in (q + 1)..(j - 1) : ~(cmds[r].s = "dst" /\ cmds[r].c = "select")
    IN cmds[q].a[1]

\* the destination message command j acts on, the source or reference
\* message it is issued for
Target(j) == dstBoxes[SelectedAt(j)][int(cmds[j].a[1])]
Origin(j) ==
    IF args.func = "sync_read" THEN SrcMsg(cmds[j].on.num) ELSE RefMsg(cmds[j].on.num)

\* C17, as claimed: a destination message is stored to or copied on behalf
\* of a source/reference message only if the two Message-ID values, each
\* everything after the first colon of its header line, are equal.
C17_EqualIdsOnly ==
    \A j \in LiveMutations :
        HeaderValue(Target(j).hdr) = HeaderValue(Origin(j).hdr)

----------------------------------------------------------------------------
(* C18: identifiers are used in the selection scope that produced them     *)

AllDstMutations ==
    {j \in DOMAIN cmds : cmds[j].s = "dst" /\ cmds[j].c \in {"store", "copy"}}

\* the commands that built an index of mailbox m on the destination
IndexingOf(m) ==
    {x \in DOMAIN cmds :
        /\ cmds[x].s = "dst" /\ cmds[x].c = "fetchall"
        /\ \E q \in 1..(x - 1) : cmds[q].s = "dst" /\ cmds[q].c = "select"
        /\ SelectedAt(x) = m}

\* the index the engine looks identifiers up in
DstIndex == IF args.func = "sync_read" THEN dst_msgids_all ELSE from_msgids_all

\* C18: a store or copy on the destination comes after a select of an
\* existing mailbox m whose index was built earlier, no expunge or close was
\* issued on the destination since that index was built, and while the loop
\* runs the identifier is the one the index of m holds for the message-ID
\* of the source/reference message; after the command m is still selected.
C18_SelectionScope ==
    /\ \A j \in AllDstMutations :
        /\ \E q \in 1..(j - 1) : cmds[q].s = "dst" /\ cmds[q].c = "select"
        /\ SelectedAt(j) \in DOMAIN dstBoxes
        /\ \E x \in IndexingOf(SelectedAt(j)) :
            /\ x < j
            /\ \A r \in x..j : ~(cmds[r].s = "dst" /\ cmds[r].c \in {"expunge", "close"})
        /\ j = Len(cmds) => dst = [state |-> "SELECTED", sel |-> SelectedAt(j)]
    /\ \A j \in LiveMutations :
        LET key == _get_header(Origin(j).hdr).val IN
        /\ SelectedAt(j) \in DOMAIN DstIndex
        /\ key \in DOMAIN DstIndex[SelectedAt(j)]
        /\ DstIndex[SelectedAt(j)][key] = cmds[j].a[1]

\* a finished run in which a message held by the second destination of a
\* pair was stored to after that mailbox had been selected again
C18_Witness ==
    /\ pc = "done"
    /\ NoErrorLogged
    /\ \E j \in AllDstMutations :
        /\ cmds[j - 1].c = "select"
        /\ \E q \in 1..(j - 2) :
            /\ cmds[q].s = "dst" /\ cmds[q].c = "select" /\ cmds[q].a[1] # SelectedAt(j)
            /\ \E x \in IndexingOf(SelectedAt(j)) : x < q

----------------------------------------------------------------------------
(* C19: nothing is flagged for removal without a copy                      *)

\* the message that command j acts on has a copy in the target mailbox
HasCopy(j) ==
    /\ args.to_mbox \in DOMAIN dstBoxes
    /\ \E c \in BoxMsgs(dstBoxes, args.to_mbox) :
            c.id = [Target(j).id EXCEPT !.gen = 1]

\* C19, as claimed: while move_msgs is in its loop, every candidate message
\* it has flagged \Deleted has a copy in the target mailbox.
C19_FlaggedOnlyIfCopied ==
    args.func = "move_msgs" =>
        \A j \in LiveMutations :
            (cmds[j].c = "store" /\ Target(j).deleted) => HasCopy(j)

----------------------------------------------------------------------------
(* C20: sync_read leaves the source account as it found it                 *)

\* what sync_read may issue on the source session: the connection (open,
\* login), select, search, fetch and logout
SourceCommands == {"open", "login", "select", "search", "fetch", "logout"}

\* every message of the source account is where it was, with the flags it had
SourceIntact ==
    \A m \in DOMAIN srcBoxes : \A q \in DOMAIN srcBoxes[m] :
        LET msg == srcBoxes[m][q] IN
        /\ msg.id = [box |-> m, pos |-> q, gen |-> 0]
        /\ msg.seen = msg.was
        /\ ~msg.touched
        /\ ~msg.deleted

\* C20: in a run of sync_read every command on the source session is one of
\* SourceCommands (no store, copy, expunge or close) and the source messages
\* and their flags are unchanged.
C20_SourceUntouched ==
    args.func = "sync_read" =>
        /\ \A j \in DOMAIN cmds : cmds[j].s = "src" => cmds[j].c \in SourceCommands
        /\ SourceIntact

\* a finished run that searched the source, fetched an unseen message from
\* it, stored to the destination and logged out
C20_Witness ==
    /\ args.func = "sync_read"
    /\ pc = "done"
    /\ LogoutIssued("src")
    /\ \E j \in DOMAIN cmds : cmds[j].s = "src" /\ cmds[j].c = "search"
    /\ \E j \in DOMAIN cmds :
        /\ cmds[j].s = "src" /\ cmds[j].c = "fetch"
        /\ ~srcBoxes[INBOX][int(cmds[j].a[1])].seen
    /\ AllDstMutations # {}

====
